---------------------------- MODULE Spec2Model ----------------------------
(***************************************************************************)
(* The attester duty of the validator client (package client):             *)
(* SubmitAttestation and the slashing-protection functions                 *)
(* isNewAttSlashable, markAttestationForTargetEpoch and                    *)
(* safeTargetToSource.                                                     *)
(*                                                                         *)
(* Epochs are uint64 in the source.  The model keeps them far below 2^63,  *)
(* where uint64 arithmetic, the int() conversions of the source and the    *)
(* integers of TLA+ agree.                                                 *)
(***************************************************************************)
EXTENDS Integers, Sequences, FiniteSets

(***************************************************************************)
(* Bounds of the model.                                                    *)
(***************************************************************************)
\* Largest epoch of the inputs drawn for the slashing-protection functions.
MaxEpoch == 3
\* Largest weak subjectivity period of the drawn inputs.
MaxPeriod == 3
\* Largest epoch of the vote data the beacon node returns.
MaxVoteEpoch == 2
\* Number of SubmitAttestation invocations for the key.
MaxInvocations == 2
\* Largest number of markAttestationForTargetEpoch calls in a row.
MaxMarks == 2
\* Largest epoch of the votes marked from the empty history.
MaxScenarioEpoch == 10

\* Largest number of checked marks in a row, and their largest epoch.
MaxGuardedMarks == 3
MaxGuardedEpoch == 6

\* The periods of the scenarios: the small ones and those of the spec's examples.
ScenarioPeriods == (1 .. MaxPeriod) \cup {4, 8, 10}

(***************************************************************************)
(* params.BeaconConfig().FarFutureEpoch is the largest uint64, 2^64 - 1.   *)
(* The source only stores it and compares it with epochs; it stands here   *)
(* as the largest integer of the model checker, above every epoch.         *)
(***************************************************************************)
FarFutureEpoch == 2147483647

(***************************************************************************)
(* slashpb.AttestationHistory: LatestEpochWritten and TargetToSource,      *)
(* which the functions below index by epoch % wsPeriod.                    *)
(***************************************************************************)
AttestationHistory(wsPeriod, epochs) ==
    [LatestEpochWritten : epochs,
     TargetToSource : [0 .. wsPeriod - 1 -> epochs \cup {FarFutureEpoch}]]

\* The history of a key that never attested: every slot the sentinel.
EmptyHistory(wsPeriod) ==
    [LatestEpochWritten |-> 0,
     TargetToSource |-> [k \in 0 .. wsPeriod - 1 |-> FarFutureEpoch]]

(***************************************************************************)
(* safeTargetToSource: the sentinel for an epoch above LatestEpochWritten  *)
(* or below LatestEpochWritten - wsPeriod (signed), else the slot.         *)
(***************************************************************************)
safeTargetToSource(wsPeriod, history, targetEpoch) ==
    IF \/ targetEpoch > history.LatestEpochWritten
       \/ targetEpoch < history.LatestEpochWritten - wsPeriod
    THEN FarFutureEpoch
    ELSE history.TargetToSource[targetEpoch % wsPeriod]

\* A variant of Pruned: the boundary epoch is not taken as pruned.
PrunedStrict(wsPeriod, history, targetEpoch) ==
    targetEpoch < history.LatestEpochWritten - wsPeriod

\* isNewAttSlashable, lines 287-290: the target was pruned.
Pruned(wsPeriod, history, targetEpoch) ==
    targetEpoch <= history.LatestEpochWritten - wsPeriod

\* A variant of DoubleVote: zero, not the sentinel, read as "no vote".
DoubleVoteZeroUnset(wsPeriod, history, targetEpoch) ==
    safeTargetToSource(wsPeriod, history, targetEpoch) # 0

\* isNewAttSlashable, lines 292-295: a vote for this target exists.
DoubleVote(wsPeriod, history, targetEpoch) ==
    safeTargetToSource(wsPeriod, history, targetEpoch) # FarFutureEpoch

\* A variant of Surrounding: the comparison reversed.
SurroundingReversed(wsPeriod, history, sourceEpoch, targetEpoch) ==
    \E i \in sourceEpoch .. targetEpoch :
        /\ safeTargetToSource(wsPeriod, history, i) # FarFutureEpoch
        /\ history.TargetToSource[i % wsPeriod] < sourceEpoch

\* isNewAttSlashable, lines 297-306: the new vote surrounds a recorded one.
Surrounding(wsPeriod, history, sourceEpoch, targetEpoch) ==
    \E i \in sourceEpoch .. targetEpoch :
        /\ safeTargetToSource(wsPeriod, history, i) # FarFutureEpoch
        /\ history.TargetToSource[i % wsPeriod] > sourceEpoch

\* isNewAttSlashable, lines 308-313: a recorded vote surrounds the new one.
Surrounded(wsPeriod, history, sourceEpoch, targetEpoch) ==
    \E i \in targetEpoch .. history.LatestEpochWritten :
        safeTargetToSource(wsPeriod, history, i) < sourceEpoch

\* A variant of isNewAttSlashable: the loop of lines 297-306 left out.
isNewAttSlashableNoSurrounding(wsPeriod, history, sourceEpoch, targetEpoch) ==
    IF Pruned(wsPeriod, history, targetEpoch) THEN FALSE
    ELSE IF DoubleVote(wsPeriod, history, targetEpoch) THEN TRUE
    ELSE IF Surrounded(wsPeriod, history, sourceEpoch, targetEpoch) THEN TRUE
    ELSE FALSE

isNewAttSlashable(wsPeriod, history, sourceEpoch, targetEpoch) ==
    IF Pruned(wsPeriod, history, targetEpoch) THEN FALSE
    ELSE IF DoubleVote(wsPeriod, history, targetEpoch) THEN TRUE
    ELSE IF Surrounding(wsPeriod, history, sourceEpoch, targetEpoch) THEN TRUE
    ELSE IF Surrounded(wsPeriod, history, sourceEpoch, targetEpoch) THEN TRUE
    ELSE FALSE

(***************************************************************************)
(* markAttestationForTargetEpoch, lines 327-329: the loop that resets the  *)
(* slots of the epochs i, i+1, ... below targetEpoch and up to maxToWrite. *)
(***************************************************************************)
\* A variant of ClearGap: the loop stops one epoch below maxToWrite.
RECURSIVE ClearGapBelowMax(_, _, _, _, _)
ClearGapBelowMax(wsPeriod, targetToSource, i, targetEpoch, maxToWrite) ==
    IF i < targetEpoch /\ i < maxToWrite
    THEN ClearGapBelowMax(wsPeriod,
                  [targetToSource EXCEPT ![i % wsPeriod] = FarFutureEpoch],
                  i + 1, targetEpoch, maxToWrite)
    ELSE targetToSource

RECURSIVE ClearGap(_, _, _, _, _)
ClearGap(wsPeriod, targetToSource, i, targetEpoch, maxToWrite) ==
    IF i < targetEpoch /\ i <= maxToWrite
    THEN ClearGap(wsPeriod,
                  [targetToSource EXCEPT ![i % wsPeriod] = FarFutureEpoch],
                  i + 1, targetEpoch, maxToWrite)
    ELSE targetToSource

\* A variant of markAttestationForTargetEpoch: LatestEpochWritten is not
\* advanced.
markWithoutAdvance(wsPeriod, history, sourceEpoch, targetEpoch) ==
    LET advanced ==
            IF targetEpoch > history.LatestEpochWritten
            THEN [LatestEpochWritten |-> history.LatestEpochWritten,
                  TargetToSource |->
                      ClearGap(wsPeriod, history.TargetToSource,
                               history.LatestEpochWritten + 1, targetEpoch,
                               history.LatestEpochWritten + wsPeriod)]
            ELSE history
    IN  [advanced EXCEPT !.TargetToSource[targetEpoch % wsPeriod] = sourceEpoch]

\* A variant of markAttestationForTargetEpoch: the slot of the target is
\* written before the gap is cleared.
markWriteBeforeClear(wsPeriod, history, sourceEpoch, targetEpoch) ==
    LET written ==
            [history EXCEPT !.TargetToSource[targetEpoch % wsPeriod] = sourceEpoch]
    IN  IF targetEpoch > history.LatestEpochWritten
        THEN [LatestEpochWritten |-> targetEpoch,
              TargetToSource |->
                  ClearGap(wsPeriod, written.TargetToSource,
                           history.LatestEpochWritten + 1, targetEpoch,
                           history.LatestEpochWritten + wsPeriod)]
        ELSE written

markAttestationForTargetEpoch(wsPeriod, history, sourceEpoch, targetEpoch) ==
    LET advanced ==
            IF targetEpoch > history.LatestEpochWritten
            THEN [LatestEpochWritten |-> targetEpoch,
                  TargetToSource |->
                      ClearGap(wsPeriod, history.TargetToSource,
                               history.LatestEpochWritten + 1, targetEpoch,
                               history.LatestEpochWritten + wsPeriod)]
            ELSE history
    IN  [advanced EXCEPT !.TargetToSource[targetEpoch % wsPeriod] = sourceEpoch]


(***************************************************************************)
(* State.                                                                  *)
(***************************************************************************)
VARIABLES
    WeakSubjectivityPeriod, \* params.BeaconConfig().WeakSubjectivityPeriod
    ProtectAttester,        \* featureconfig.Get().ProtectAttester
    emitAccountMetrics,     \* v.emitAccountMetrics
    duties,                 \* v.duties
    db,                     \* v.db: the persisted history of the key
    proposed,               \* attestations the beacon node received
    attLogs,                \* v.attLogs
    failCount,              \* validatorAttestFailVec for the key
    successCount,           \* validatorAttestSuccessVec for the key
    pc,                     \* position of each SubmitAttestation invocation
    frame,                  \* its locals: duty, data1, data2, history, sig1, sig2
    failedAt,               \* the step whose error ended it
    dbAtStart,              \* the persisted history when it started
    hist,                   \* the history the functions are applied to
    inSource,               \* the sourceEpoch argument
    inTarget,               \* the targetEpoch argument
    trace,                  \* the (source, target) pairs marked so far
    query                   \* the last isNewAttSlashable / safeTargetToSource call

configVars == <<WeakSubjectivityPeriod, ProtectAttester, emitAccountMetrics, duties>>
clientVars == <<db, proposed, attLogs, failCount, successCount,
                pc, frame, failedAt, dbAtStart>>
engineVars == <<hist, inSource, inTarget, trace, query>>
vars == <<configVars, clientVars, engineVars>>


(***************************************************************************)
(* SubmitAttestation(ctx, slot, pubKey) for one public key.  The slot only *)
(* goes into the request to the beacon node, whose answer is any vote data *)
(* here.                                                                   *)
(***************************************************************************)
Invocations == 1 .. MaxInvocations

PubKey == "pubKey"
OtherKey == "otherKey"

\* v.duties: nil, or the duties of the epoch.
NoDuties == [isNil |-> TRUE, Duties |-> <<>>]
DutyInCommittee ==
    [PublicKey |-> PubKey, CommitteeIndex |-> 0,
     Committee |-> <<7, 5>>, ValidatorIndex |-> 5]
DutyNotInCommittee ==
    [PublicKey |-> PubKey, CommitteeIndex |-> 0,
     Committee |-> <<7>>, ValidatorIndex |-> 5]
DutyOfOtherKey ==
    [PublicKey |-> OtherKey, CommitteeIndex |-> 0,
     Committee |-> <<7>>, ValidatorIndex |-> 7]
DutySets ==
    {NoDuties,
     [isNil |-> FALSE, Duties |-> <<DutyOfOtherKey>>],
     [isNil |-> FALSE, Duties |-> <<DutyOfOtherKey, DutyInCommittee>>],
     [isNil |-> FALSE, Duties |-> <<DutyNotInCommittee>>]}

NoDuty == [PublicKey |-> "", CommitteeIndex |-> 0, Committee |-> <<>>, ValidatorIndex |-> 0]

\* v.duty(pubKey): the first duty of the key, or an error.
dutyOf(dutiesNow, pubKey) ==
    IF dutiesNow.isNil
    THEN [err |-> TRUE, duty |-> NoDuty]
    ELSE LET list == dutiesNow.Duties
             found == {i \in 1 .. Len(list) : list[i].PublicKey = pubKey}
         IN  IF found = {}
             THEN [err |-> TRUE, duty |-> NoDuty]
             ELSE [err |-> FALSE,
                   duty |-> list[CHOOSE i \in found : \A j \in found : i <= j]]

\* ethpb.AttestationData, reduced to its source and target epochs.
\* The beacon node returns data whose source does not exceed its target.
VoteData ==
    {d \in [Source : 0 .. MaxVoteEpoch, Target : 0 .. MaxVoteEpoch] :
        d.Source <= d.Target}
NoData == [Source |-> 0, Target |-> 0]

\* signAtt: the signature of the data's root under the domain of its target.
signAtt(pubKey, data) ==
    [PubKey |-> pubKey, Root |-> data, DomainEpoch |-> data.Target]
NoSig == [PubKey |-> "", Root |-> NoData, DomainEpoch |-> 0]

\* Lines 132-140: the position of the validator in the committee, 0-based;
\* -1 when it is not found.
indexInCommittee(d) ==
    LET at == {i \in 1 .. Len(d.Committee) : d.Committee[i] = d.ValidatorIndex}
    IN  IF at = {} THEN -1 ELSE (CHOOSE i \in at : \A j \in at : i <= j) - 1

\* Lines 149-150: a bitlist of the committee's length with one bit set.
aggregationBitfield(d) ==
    [i \in 0 .. Len(d.Committee) - 1 |-> i = indexInCommittee(d)]

Attestation(d, data, sig) ==
    [Data |-> data, AggregationBits |-> aggregationBitfield(d), Signature |-> sig]


Terminated(p) == pc[p] \in {"Done", "Failed"}

NoHistory == [LatestEpochWritten |-> 0, TargetToSource |-> <<>>]

\* The locals of an invocation that has not started or has returned.
NoFrame ==
    [duty |-> NoDuty, data1 |-> NoData, data2 |-> NoData,
     history |-> NoHistory, sig1 |-> NoSig, sig2 |-> NoSig]

\* Every error path: the error is logged, the failure counter is
\* incremented when metrics are on, and the invocation returns.
Fail(p, at) ==
    /\ pc' = [pc EXCEPT ![p] = "Failed"]
    /\ failedAt' = [failedAt EXCEPT ![p] = at]
    /\ failCount' = IF emitAccountMetrics THEN failCount + 1 ELSE failCount
    /\ frame' = [frame EXCEPT ![p] = NoFrame]

Goto(p, label, locals) ==
    /\ pc' = [pc EXCEPT ![p] = label]
    /\ frame' = [frame EXCEPT ![p] = locals]
    /\ UNCHANGED <<failedAt, failCount>>

\* Lines 59-66.
ResolveDuty(p) ==
    /\ pc[p] = "Start"
    /\ dbAtStart' = [dbAtStart EXCEPT ![p] = db]
    /\ LET r == dutyOf(duties, PubKey)
       IN  IF r.err
           THEN Fail(p, "duty")
           ELSE Goto(p, "GetData1", [frame[p] EXCEPT !.duty = r.duty])
    /\ UNCHANGED <<configVars, engineVars, db, proposed, attLogs, successCount>>

\* Lines 73-81: the first GetAttestationData, and data2 its clone.
GetAttestationData1(p) ==
    /\ pc[p] = "GetData1"
    /\ \/ Fail(p, "data1")
       \/ \E d \in VoteData :
             Goto(p, "GetData2", [frame[p] EXCEPT !.data1 = d, !.data2 = d])
    /\ UNCHANGED <<configVars, engineVars, db, proposed, attLogs, successCount,
                   dbAtStart>>

\* Line 83: the test of the loop, which asks again while the two source
\* epochs are equal and goes on when they differ.
ForSameSource(p) ==
    /\ pc[p] = "GetData2"
    /\ Goto(p, IF frame[p].data1.Source = frame[p].data2.Source
               THEN "AwaitData2" ELSE "Protect", frame[p])
    /\ UNCHANGED <<configVars, engineVars, db, proposed, attLogs, successCount,
                   dbAtStart>>

\* Lines 84-91: the call of the loop's body returns, an error or data that
\* becomes data2, whatever its source epoch; then the test again.
GetAttestationData2(p) ==
    /\ pc[p] = "AwaitData2"
    /\ \/ Fail(p, "data2")
       \/ \E d \in VoteData :
             Goto(p, "GetData2", [frame[p] EXCEPT !.data2 = d])
    /\ UNCHANGED <<configVars, engineVars, db, proposed, attLogs, successCount,
                   dbAtStart>>

\* Lines 103-112: the candidates SubmitAttestation refuses.
rejected(wsPeriod, loaded, d1, d2) ==
    isNewAttSlashable(wsPeriod, loaded, d1.Source, d1.Target)

\* Lines 94-113: with ProtectAttester, the history is loaded and checked.
ProtectCheck(p) ==
    /\ pc[p] = "Protect"
    /\ IF ProtectAttester
       THEN \/ Fail(p, "load")
            \/ IF rejected(WeakSubjectivityPeriod, db, frame[p].data1, frame[p].data2)
               THEN Fail(p, "slashable")
               ELSE Goto(p, "Sign1", [frame[p] EXCEPT !.history = db])
       ELSE Goto(p, "Sign1", frame[p])
    /\ UNCHANGED <<configVars, engineVars, db, proposed, attLogs, successCount,
                   dbAtStart>>

\* Lines 115-122.
SignAtt1(p) ==
    /\ pc[p] = "Sign1"
    /\ \/ Fail(p, "sign1")
       \/ Goto(p, "Sign2", [frame[p] EXCEPT !.sig1 = signAtt(PubKey, frame[p].data1)])
    /\ UNCHANGED <<configVars, engineVars, db, proposed, attLogs, successCount,
                   dbAtStart>>

\* Lines 123-147: the second signature, then the validator's position in
\* the committee.
SignAtt2(p) ==
    /\ pc[p] = "Sign2"
    /\ \/ Fail(p, "sign2")
       \/ IF indexInCommittee(frame[p].duty) < 0
          THEN Fail(p, "committee")
          ELSE Goto(p, "Propose1",
                    [frame[p] EXCEPT !.sig2 = signAtt(PubKey, frame[p].data2)])
    /\ UNCHANGED <<configVars, engineVars, db, proposed, attLogs, successCount,
                   dbAtStart>>

\* Lines 149-169.
ProposeAttestation1(p) ==
    /\ pc[p] = "Propose1"
    /\ \/ /\ Fail(p, "propose1")
          /\ UNCHANGED proposed
       \/ /\ proposed' = proposed \cup
                 {[inv |-> p,
                   att |-> Attestation(frame[p].duty, frame[p].data1, frame[p].sig1)]}
          /\ Goto(p, "Propose2", frame[p])
    /\ UNCHANGED <<configVars, engineVars, db, attLogs, successCount, dbAtStart>>

\* A variant of ProposeAttestation2: the error of the second
\* ProposeAttestation is logged but the invocation goes on.
ProposeAttestation2ErrorIgnored(p) ==
    /\ pc[p] = "Propose2"
    /\ \/ /\ UNCHANGED proposed
          /\ Goto(p, IF ProtectAttester THEN "LoadHistory" ELSE "SaveIndex", frame[p])
       \/ /\ proposed' = proposed \cup
                 {[inv |-> p,
                   att |-> Attestation(frame[p].duty, frame[p].data2, frame[p].sig2)]}
          /\ Goto(p, IF ProtectAttester THEN "LoadHistory" ELSE "SaveIndex", frame[p])
    /\ UNCHANGED <<configVars, engineVars, db, attLogs, successCount, dbAtStart>>

\* Lines 170-182.
ProposeAttestation2(p) ==
    /\ pc[p] = "Propose2"
    /\ \/ /\ Fail(p, "propose2")
          /\ UNCHANGED proposed
       \/ /\ proposed' = proposed \cup
                 {[inv |-> p,
                   att |-> Attestation(frame[p].duty, frame[p].data2, frame[p].sig2)]}
          /\ Goto(p, IF ProtectAttester THEN "LoadHistory" ELSE "SaveIndex", frame[p])
    /\ UNCHANGED <<configVars, engineVars, db, attLogs, successCount, dbAtStart>>

\* A variant of LoadHistory: a failed load returns without the failure
\* counter.
LoadHistoryFailureUncounted(p) ==
    /\ pc[p] = "LoadHistory"
    /\ \/ /\ pc' = [pc EXCEPT ![p] = "Failed"]
          /\ failedAt' = [failedAt EXCEPT ![p] = "reload"]
          /\ frame' = [frame EXCEPT ![p] = NoFrame]
          /\ UNCHANGED failCount
       \/ Goto(p, "SaveHistory", [frame[p] EXCEPT !.history = db])
    /\ UNCHANGED <<configVars, engineVars, db, proposed, attLogs, successCount,
                   dbAtStart>>

\* Lines 183-190.
LoadHistory(p) ==
    /\ pc[p] = "LoadHistory"
    /\ \/ Fail(p, "reload")
       \/ Goto(p, "SaveHistory", [frame[p] EXCEPT !.history = db])
    /\ UNCHANGED <<configVars, engineVars, db, proposed, attLogs, successCount,
                   dbAtStart>>

\* Line 191: what SubmitAttestation folds into the loaded history.
historyToSave(wsPeriod, loaded, d1, d2) ==
    markAttestationForTargetEpoch(wsPeriod, loaded, d1.Source, d1.Target)

\* Lines 191-199: a failed save leaves the persisted history as it was.
SaveHistory(p) ==
    /\ pc[p] = "SaveHistory"
    /\ LET marked == historyToSave(WeakSubjectivityPeriod, frame[p].history,
                                   frame[p].data1, frame[p].data2)
       IN  \/ /\ Fail(p, "save")
              /\ UNCHANGED db
           \/ /\ db' = marked
              /\ Goto(p, "SaveIndex", [frame[p] EXCEPT !.history = marked])
    /\ UNCHANGED <<configVars, engineVars, proposed, attLogs, successCount,
                   dbAtStart>>

\* saveAttesterIndexToData, lines 264-279.
saveAttesterIndexToData(logs, data, index) ==
    [logs EXCEPT ![data] = Append(@, index)]

\* A variant of SaveAttesterIndex: the error path of lines 201-206 counts
\* the failure and, its return missing, goes on to the success counter.
SaveAttesterIndexNoReturn(p) ==
    /\ pc[p] = "SaveIndex"
    /\ \/ /\ pc' = [pc EXCEPT ![p] = "CountSuccess"]
          /\ failedAt' = [failedAt EXCEPT ![p] = "index"]
          /\ failCount' = IF emitAccountMetrics THEN failCount + 1 ELSE failCount
          /\ UNCHANGED <<frame, attLogs>>
       \/ /\ attLogs' = saveAttesterIndexToData(attLogs, frame[p].data1,
                                                frame[p].duty.ValidatorIndex)
          /\ Goto(p, "CountSuccess", frame[p])
    /\ UNCHANGED <<configVars, engineVars, db, proposed, successCount, dbAtStart>>

\* Lines 201-207: the logging annotation, written under attLogsLock, which
\* saveAttesterIndexToData releases when it returns.
SaveAttesterIndex(p) ==
    /\ pc[p] = "SaveIndex"
    /\ \/ /\ Fail(p, "index")
          /\ UNCHANGED attLogs
       \/ /\ attLogs' = saveAttesterIndexToData(attLogs, frame[p].data1,
                                                frame[p].duty.ValidatorIndex)
          /\ Goto(p, "CountSuccess", frame[p])
    /\ UNCHANGED <<configVars, engineVars, db, proposed, successCount, dbAtStart>>

\* Lines 209-222: the success counter, then the return.
CountSuccess(p) ==
    /\ pc[p] = "CountSuccess"
    /\ successCount' =
           IF emitAccountMetrics THEN successCount + 1 ELSE successCount
    /\ Goto(p, "Done", NoFrame)
    /\ UNCHANGED <<configVars, engineVars, db, proposed, attLogs, dbAtStart>>

\* The steps of an invocation after its first.
Proceed(p) ==
    \/ GetAttestationData1(p)
    \/ ForSameSource(p)
    \/ GetAttestationData2(p)
    \/ ProtectCheck(p)
    \/ SignAtt1(p)
    \/ SignAtt2(p)
    \/ ProposeAttestation1(p)
    \/ ProposeAttestation2(p)
    \/ LoadHistory(p)
    \/ SaveHistory(p)
    \/ SaveAttesterIndex(p)
    \/ CountSuccess(p)

SubmitAttestation(p) == ResolveDuty(p) \/ Proceed(p)

(***************************************************************************)
(* Initial states.                                                         *)
(***************************************************************************)
NoQuery == [op |-> "none", ret |-> 0]

\* The validator client after construction: nothing attested yet.
ClientInit ==
    /\ db = EmptyHistory(WeakSubjectivityPeriod)
    /\ proposed = {}
    /\ attLogs = [d \in VoteData |-> <<>>]
    /\ failCount = 0
    /\ successCount = 0
    /\ pc = [p \in Invocations |-> "Start"]
    /\ frame = [p \in Invocations |-> NoFrame]
    /\ failedAt = [p \in Invocations |-> "none"]
    /\ dbAtStart = [p \in Invocations |-> EmptyHistory(WeakSubjectivityPeriod)]

EngineIdle ==
    /\ hist = EmptyHistory(WeakSubjectivityPeriod)
    /\ inSource = 0
    /\ inTarget = 0
    /\ trace = <<>>
    /\ query = NoQuery

Init ==
    /\ WeakSubjectivityPeriod \in 2 .. MaxPeriod
    /\ ProtectAttester \in BOOLEAN
    /\ emitAccountMetrics \in BOOLEAN
    /\ duties \in DutySets
    /\ ClientInit
    /\ EngineIdle

(***************************************************************************)
(* Spec: the invocations for the key run concurrently, as goroutines.      *)
(***************************************************************************)
Next == \E p \in Invocations : SubmitAttestation(p)

Spec == Init /\ [][Next]_vars

(***************************************************************************)
(* SeqSpec: the invocations run one after another.                         *)
(***************************************************************************)
\* An invocation starts when the ones before it have returned.
SeqStart(p) ==
    /\ \A q \in 1 .. p - 1 : Terminated(q)
    /\ ResolveDuty(p)

SeqNext == \E p \in Invocations : SeqStart(p) \/ Proceed(p)

SeqSpec == Init /\ [][SeqNext]_vars

(***************************************************************************)
(* FairSeqSpec: SeqSpec with every invocation scheduled and every call it  *)
(* makes returning, a value or an error: an invocation that can take a     *)
(* step eventually takes one.  Every step changes the position of the      *)
(* invocation, a repeated answer in the loop of line 83 included, so no    *)
(* behaviour of the code is left out as stuttering.                        *)
(***************************************************************************)
FairSeqSpec ==
    SeqSpec /\ \A p \in Invocations : WF_vars(SeqStart(p) \/ Proceed(p))


(***************************************************************************)
(* PureSpec: the three functions applied to drawn arguments.  The history  *)
(* is any record over the bounded epochs, or one of the spec's window      *)
(* example (period 10, LatestEpochWritten 100).  The arguments are drawn   *)
(* with it; markAttestationForTargetEpoch may be applied up to MaxMarks    *)
(* times, then isNewAttSlashable or safeTargetToSource once.               *)
(***************************************************************************)
ClientIdle ==
    /\ ProtectAttester = TRUE
    /\ emitAccountMetrics = TRUE
    /\ duties = NoDuties
    /\ ClientInit

SmallInputs ==
    /\ WeakSubjectivityPeriod \in 1 .. MaxPeriod
    /\ hist \in AttestationHistory(WeakSubjectivityPeriod, 0 .. MaxEpoch)
    /\ inSource \in 0 .. MaxEpoch
    /\ inTarget \in 0 .. MaxEpoch

WindowInputs ==
    /\ WeakSubjectivityPeriod = 10
    /\ hist \in [LatestEpochWritten : {100},
                 TargetToSource : [0 .. 9 -> {95, FarFutureEpoch}]]
    /\ inSource \in {0, 96}
    /\ inTarget \in {89, 90, 91}

\* The spec's surround example: the vote (5, 10) recorded, (3, 12) asked.
SurroundInputs ==
    /\ WeakSubjectivityPeriod \in ScenarioPeriods
    /\ hist = markAttestationForTargetEpoch(WeakSubjectivityPeriod,
                   EmptyHistory(WeakSubjectivityPeriod), 5, 10)
    /\ inSource = 3
    /\ inTarget = 12

\* The spec's gap example: period 4, LatestEpochWritten 3, target 10.
GapInputs ==
    /\ WeakSubjectivityPeriod = 4
    /\ hist \in [LatestEpochWritten : {3},
                 TargetToSource : [0 .. 3 -> {0, FarFutureEpoch}]]
    /\ inSource \in {2, 9}
    /\ inTarget = 10

PureInit ==
    /\ SmallInputs \/ WindowInputs \/ SurroundInputs \/ GapInputs
    /\ trace = <<>>
    /\ query = NoQuery
    /\ ClientIdle

Mark ==
    /\ query.op = "none"
    /\ Len(trace) < MaxMarks
    /\ hist' = markAttestationForTargetEpoch(WeakSubjectivityPeriod, hist,
                                             inSource, inTarget)
    /\ trace' = Append(trace, <<inSource, inTarget, hist>>)
    /\ UNCHANGED <<configVars, clientVars, inSource, inTarget, query>>

Check ==
    /\ query.op = "none"
    /\ query' = [op |-> "isNewAttSlashable",
                 ret |-> isNewAttSlashable(WeakSubjectivityPeriod, hist,
                                           inSource, inTarget)]
    /\ UNCHANGED <<configVars, clientVars, hist, inSource, inTarget, trace>>

SafeRead ==
    /\ query.op = "none"
    /\ query' = [op |-> "safeTargetToSource",
                 ret |-> safeTargetToSource(WeakSubjectivityPeriod, hist, inTarget)]
    /\ UNCHANGED <<configVars, clientVars, hist, inSource, inTarget, trace>>

PureNext == Mark \/ Check \/ SafeRead

PureSpec == PureInit /\ [][PureNext]_vars

(***************************************************************************)
(* ScenarioSpec: votes marked one after another from the empty history,    *)
(* unconditionally, for the periods of the spec's examples.                *)
(***************************************************************************)
ScenarioInit ==
    /\ WeakSubjectivityPeriod \in ScenarioPeriods
    /\ hist = EmptyHistory(WeakSubjectivityPeriod)
    /\ inSource = 0
    /\ inTarget = 0
    /\ trace = <<>>
    /\ query = NoQuery
    /\ ClientIdle

Commit(sourceEpoch, targetEpoch) ==
    /\ Len(trace) < MaxMarks
    /\ hist' = markAttestationForTargetEpoch(WeakSubjectivityPeriod, hist,
                                             sourceEpoch, targetEpoch)
    /\ trace' = Append(trace, <<sourceEpoch, targetEpoch>>)
    /\ UNCHANGED <<configVars, clientVars, inSource, inTarget, query>>

ScenarioNext ==
    \E t \in 0 .. MaxScenarioEpoch : \E s \in 0 .. t : Commit(s, t)

ScenarioSpec == ScenarioInit /\ [][ScenarioNext]_vars

(***************************************************************************)
(* GuardedSpec: votes marked one after another from the empty history,     *)
(* each only when isNewAttSlashable returned false for it on the current   *)
(* history, as lines 103 and 191 do for data1; a vote it rejects is        *)
(* dropped and recorded in query.                                          *)
(***************************************************************************)
GuardedInit ==
    /\ WeakSubjectivityPeriod \in 1 .. MaxPeriod
    /\ hist = EmptyHistory(WeakSubjectivityPeriod)
    /\ inSource = 0
    /\ inTarget = 0
    /\ trace = <<>>
    /\ query = NoQuery
    /\ ClientIdle

GuardedCommit(sourceEpoch, targetEpoch) ==
    /\ Len(trace) < MaxGuardedMarks
    /\ ~isNewAttSlashable(WeakSubjectivityPeriod, hist, sourceEpoch, targetEpoch)
    /\ hist' = markAttestationForTargetEpoch(WeakSubjectivityPeriod, hist,
                                             sourceEpoch, targetEpoch)
    /\ trace' = Append(trace, <<sourceEpoch, targetEpoch>>)
    /\ query' = [op |-> "isNewAttSlashable", ret |-> FALSE]
    /\ UNCHANGED <<configVars, clientVars, inSource, inTarget>>

GuardedReject(sourceEpoch, targetEpoch) ==
    /\ Len(trace) < MaxGuardedMarks
    /\ isNewAttSlashable(WeakSubjectivityPeriod, hist, sourceEpoch, targetEpoch)
    /\ query' = [op |-> "isNewAttSlashable", ret |-> TRUE]
    /\ UNCHANGED <<configVars, clientVars, hist, inSource, inTarget, trace>>

GuardedNext ==
    \E t \in 0 .. MaxGuardedEpoch : \E s \in 0 .. t :
        GuardedCommit(s, t) \/ GuardedReject(s, t)

GuardedSpec == GuardedInit /\ [][GuardedNext]_vars


(***************************************************************************)
(* Properties of isNewAttSlashable, under PureSpec.                        *)
(***************************************************************************)
Checked == query.op = "isNewAttSlashable"

InWindow(epoch) ==
    /\ epoch <= hist.LatestEpochWritten
    /\ epoch > hist.LatestEpochWritten - WeakSubjectivityPeriod

Recorded(epoch) == hist.TargetToSource[epoch % WeakSubjectivityPeriod]

\* C7: double-vote detection.  When the slot of the target holds a source
\* (not the sentinel) and the target is inside the retained window,
\* isNewAttSlashable returns true whatever the source epoch asked, the
\* recorded source included.
C7_DoubleVoteDetected ==
    (Checked /\ InWindow(inTarget) /\ Recorded(inTarget) # FarFutureEpoch)
        => query.ret = TRUE

C7_Witness ==
    /\ Checked
    /\ InWindow(inTarget)
    /\ Recorded(inTarget) = inSource
    /\ query.ret = TRUE

\* C8: surround detection.  When a target t2 inside the retained window has
\* a recorded source s2 <= t2, isNewAttSlashable returns true for every
\* candidate (s, t) with s < s2 and t2 < t.
C8_SurroundDetected ==
    Checked =>
        \A t2 \in 0 .. hist.LatestEpochWritten :
            (/\ InWindow(t2)
             /\ Recorded(t2) <= t2
             /\ inSource < Recorded(t2)
             /\ t2 < inTarget) => query.ret = TRUE

\* The spec's example: (5, 10) recorded, (3, 12) asked.
C8_Witness ==
    /\ Checked
    /\ trace = <<>>
    /\ hist.LatestEpochWritten = 10
    /\ InWindow(10)
    /\ Recorded(10) = 5
    /\ inSource = 3
    /\ inTarget = 12
    /\ query.ret = TRUE

\* C10: pruning.  A target at or below LatestEpochWritten - period, in
\* signed arithmetic, is never slashable, whatever the slots hold; when
\* LatestEpochWritten is below the period nothing is pruned, so a recorded
\* target is still a double vote; and with period 10 and
\* LatestEpochWritten 100 the answer for target 91 follows the recorded
\* data (a double vote when slot 1 holds a source, not slashable when every
\* slot is the sentinel) while target 89 is never slashable.
C10_Pruning ==
    Checked =>
        /\ inTarget <= hist.LatestEpochWritten - WeakSubjectivityPeriod
               => query.ret = FALSE
        /\ (/\ hist.LatestEpochWritten < WeakSubjectivityPeriod
            /\ inTarget <= hist.LatestEpochWritten
            /\ Recorded(inTarget) # FarFutureEpoch) => query.ret = TRUE
        /\ (WeakSubjectivityPeriod = 10 /\ hist.LatestEpochWritten = 100) =>
               /\ inTarget = 89 => query.ret = FALSE
               /\ (inTarget = 91 /\ hist.TargetToSource[1] # FarFutureEpoch)
                      => query.ret = TRUE
               /\ (inTarget = 91 /\ \A k \in 0 .. 9 :
                                       hist.TargetToSource[k] = FarFutureEpoch)
                      => query.ret = FALSE

\* Period 10, LatestEpochWritten 100: target 89 asked on a history whose
\* slot 9 (that of epochs 89 and 99) holds a source.
C10_Witness ==
    /\ Checked
    /\ WeakSubjectivityPeriod = 10
    /\ hist.LatestEpochWritten = 100
    /\ inTarget = 89
    /\ hist.TargetToSource[9] # FarFutureEpoch
    /\ query.ret = FALSE

(***************************************************************************)
(* Properties of markAttestationForTargetEpoch and safeTargetToSource,     *)
(* under PureSpec.  After Mark, hist is the marked history, the last       *)
(* entry of trace holds the arguments and the history before.              *)
(***************************************************************************)
Marked == Len(trace) >= 1
HistoryBefore == trace[Len(trace)][3]
ReadBack == query.op = "safeTargetToSource"

\* C12, as the spec states it: for every history, source and target,
\* safeTargetToSource of the target on the marked history is the source.
C12_RoundTripAlways ==
    (Marked /\ ReadBack) => query.ret = inSource

\* C12, amended: for every history, source and target with the target
\* inside or above the retained window of the history
\* (target > LatestEpochWritten - period, signed), safeTargetToSource of
\* the target on the marked history is the source.
C12_RoundTrip ==
    (/\ Marked
     /\ ReadBack
     /\ inTarget > HistoryBefore.LatestEpochWritten - WeakSubjectivityPeriod)
        => query.ret = inSource

\* A target that wraps onto its own slot while the gap is cleared.
C12_Witness ==
    /\ Marked
    /\ ReadBack
    /\ inTarget >= HistoryBefore.LatestEpochWritten + WeakSubjectivityPeriod + 1
    /\ HistoryBefore.TargetToSource[inTarget % WeakSubjectivityPeriod] # inSource
    /\ query.ret = inSource

\* C13: commit idempotence.  For every history and (source, target), the
\* history after markAttestationForTargetEpoch is applied twice with the
\* same arguments equals, in LatestEpochWritten and in every slot, the
\* history after it is applied once.
C13_MarkIdempotent ==
    Len(trace) = 2 =>
        /\ hist.LatestEpochWritten = HistoryBefore.LatestEpochWritten
        /\ \A k \in 0 .. WeakSubjectivityPeriod - 1 :
               hist.TargetToSource[k] = HistoryBefore.TargetToSource[k]

\* Marked twice, the first mark clearing a gap that wraps onto the slot of
\* the target and changing the history.
C13_Witness ==
    /\ Len(trace) = 2
    /\ inTarget >= trace[1][3].LatestEpochWritten + WeakSubjectivityPeriod + 1
    /\ trace[1][3].TargetToSource[inTarget % WeakSubjectivityPeriod] # inSource
    /\ hist = trace[2][3]
    /\ hist.TargetToSource[inTarget % WeakSubjectivityPeriod] = inSource

\* The spec's gap example, marked once.
GapMarked ==
    /\ Len(trace) = 1
    /\ WeakSubjectivityPeriod = 4
    /\ HistoryBefore.LatestEpochWritten = 3
    /\ inTarget = 10

\* C14, as the spec states it: from LatestEpochWritten 3 with period 4,
\* marking target 10 resets the slots of the epochs 4 to 7 (the slot of
\* the target then holds the source) and leaves the slot of epoch 3 as it
\* was.
C14_AsStated ==
    GapMarked =>
        /\ \A e \in 4 .. 7 :
               hist.TargetToSource[e % 4] =
                   IF e % 4 = 10 % 4 THEN inSource ELSE FarFutureEpoch
        /\ hist.TargetToSource[3 % 4] = HistoryBefore.TargetToSource[3 % 4]

\* C14, amended: from LatestEpochWritten 3 with period 4, marking target
\* 10 resets the slots of the epochs 4 to 7, which are all four slots of
\* the array, the slot epoch 3 shares with epoch 7 included; then
\* LatestEpochWritten is 10 and the slot of the target (10 mod 4 = 2)
\* holds the source.
C14_GapClear ==
    GapMarked =>
        /\ \A e \in 4 .. 7 :
               hist.TargetToSource[e % 4] =
                   IF e % 4 = 10 % 4 THEN inSource ELSE FarFutureEpoch
        /\ hist.TargetToSource[3 % 4] = FarFutureEpoch
        /\ hist.LatestEpochWritten = 10

\* Every slot held a source before the mark.
C14_Witness ==
    /\ GapMarked
    /\ \A k \in 0 .. 3 : HistoryBefore.TargetToSource[k] = 0
    /\ hist.TargetToSource[3] = FarFutureEpoch
    /\ hist.TargetToSource[2] = inSource

\* C18: the bounds-checked read.  For every history and epoch,
\* safeTargetToSource returns the sentinel when the epoch is above
\* LatestEpochWritten or at or below LatestEpochWritten - period, the
\* boundary epoch included, and the slot of the epoch otherwise.
C18_BoundsCheckedRead ==
    ReadBack =>
        query.ret =
            IF \/ inTarget > hist.LatestEpochWritten
               \/ inTarget <= hist.LatestEpochWritten - WeakSubjectivityPeriod
            THEN FarFutureEpoch
            ELSE Recorded(inTarget)

(***************************************************************************)
(* Properties of the marked history, under ScenarioSpec.                   *)
(***************************************************************************)
Slashable(sourceEpoch, targetEpoch) ==
    isNewAttSlashable(WeakSubjectivityPeriod, hist, sourceEpoch, targetEpoch)

\* C9, as the spec states it: after (2, 9) and then (5, 10) are marked on
\* the empty history, (6, 9) is not slashable and (1, 9) is.
C9_AsStated ==
    trace = << <<2, 9>>, <<5, 10>> >>
        => (~Slashable(6, 9) /\ Slashable(1, 9))

\* C9, amended: after (2, 9) and then (5, 10) are marked on the empty
\* history and the period is at least 2, so that target 9 is retained,
\* both (6, 9) and (1, 9) are slashable: each is a second vote for the
\* recorded target 9.
C9_BothSlashable ==
    (trace = << <<2, 9>>, <<5, 10>> >> /\ WeakSubjectivityPeriod >= 2)
        => (/\ Slashable(6, 9)
            /\ Slashable(1, 9)
            /\ DoubleVote(WeakSubjectivityPeriod, hist, 9))

C9_Witness ==
    /\ trace = << <<2, 9>>, <<5, 10>> >>
    /\ WeakSubjectivityPeriod = 8
    /\ hist.LatestEpochWritten = 10
    /\ Slashable(6, 9)


\* C11: the end-to-end scenario.  With period 8, after (0, 1) is marked on
\* the empty history, (0, 1) is slashable and (1, 2) is not; after (1, 2)
\* is marked next, (0, 3) is slashable.
C11_EndToEnd ==
    WeakSubjectivityPeriod = 8 =>
        /\ trace = << <<0, 1>> >> => (Slashable(0, 1) /\ ~Slashable(1, 2))
        /\ trace = << <<0, 1>>, <<1, 2>> >> => Slashable(0, 3)

C11_Witness ==
    /\ WeakSubjectivityPeriod = 8
    /\ trace = << <<0, 1>>, <<1, 2>> >>
    /\ hist.LatestEpochWritten = 2
    /\ Recorded(1) = 0
    /\ Recorded(2) = 1
    /\ Slashable(0, 3)

\* The marks of the trace for one target, and the source of the last one.
CommitsFor(epoch) == {i \in 1 .. Len(trace) : trace[i][2] = epoch}
LastSourceFor(epoch) ==
    trace[CHOOSE i \in CommitsFor(epoch) : \A j \in CommitsFor(epoch) : j <= i][1]

\* C16, under ScenarioSpec: after any sequence of marks from the empty
\* history, targets at or below LatestEpochWritten - period included, the
\* slot of every epoch e of the retained window holds the source of the
\* most recent mark for target e, or the sentinel when there was none;
\* never a source marked for another target.
C16_HistoryInvariant ==
    \A e \in 0 .. hist.LatestEpochWritten :
        InWindow(e) =>
            Recorded(e) = IF CommitsFor(e) = {} THEN FarFutureEpoch
                          ELSE LastSourceFor(e)

(***************************************************************************)
(* Properties of SubmitAttestation.                                        *)
(***************************************************************************)
\* The votes the beacon node received, and those of one invocation.
Votes == {a.att.Data : a \in proposed}
VotesOf(p) == {a.att.Data : a \in {b \in proposed : b.inv = p}}

\* Two different votes for one target.
IsDoubleVote(v, w) == v.Target = w.Target /\ v # w
\* v surrounds w.
IsSurroundVote(v, w) == v.Source < w.Source /\ w.Target < v.Target
SlashablePair(v, w) ==
    IsDoubleVote(v, w) \/ IsSurroundVote(v, w) \/ IsSurroundVote(w, v)

Retained(v) == v.Target > db.LatestEpochWritten - WeakSubjectivityPeriod

\* C1, under SeqSpec: with slashing protection on, no two votes submitted
\* for the key with targets inside the retained window are a double vote
\* or a surround vote.
C1_NoSlashableVotes ==
    ProtectAttester =>
        \A v \in Votes, w \in Votes :
            (Retained(v) /\ Retained(w)) => ~SlashablePair(v, w)

\* The steps of an invocation after its protection check and before the
\* history is loaded again.
AfterCheck(p) == pc[p] \in {"Sign1", "Sign2", "Propose1", "Propose2", "LoadHistory"}

\* C2, under SeqSpec: with slashing protection on, an invocation goes past
\* its protection check only when neither candidate is slashable against
\* the history it loaded, and every vote it submits is one of these.
C2_CheckedBeforeSubmit ==
    ProtectAttester =>
        \A p \in Invocations :
            AfterCheck(p) =>
                /\ ~isNewAttSlashable(WeakSubjectivityPeriod, frame[p].history,
                                      frame[p].data1.Source, frame[p].data1.Target)
                /\ ~isNewAttSlashable(WeakSubjectivityPeriod, frame[p].history,
                                      frame[p].data2.Source, frame[p].data2.Target)
                /\ VotesOf(p) \subseteq {frame[p].data1, frame[p].data2}

FirstAttestation(p) ==
    [inv |-> p, att |-> Attestation(frame[p].duty, frame[p].data1, frame[p].sig1)]
SecondAttestation(p) ==
    [inv |-> p, att |-> Attestation(frame[p].duty, frame[p].data2, frame[p].sig2)]

\* The failures before the commit of the history.
EarlyFailures ==
    {"duty", "data1", "data2", "load", "slashable", "sign1", "sign2",
     "committee", "propose1", "propose2"}

\* The invocation p is the last one that ran.
Latest(p) == \A q \in Invocations : q > p => pc[q] = "Start"

\* C3, under SeqSpec: the persisted history records only submitted votes.
\* The save is reached only with both attestations of the invocation
\* submitted; every source a slot holds, and LatestEpochWritten, come from
\* a submitted vote; and when an invocation fails at the duty lookup, a
\* fetch, the protection check, a signature, the committee lookup or a
\* submission, the persisted history at its end is the one at its start.
C3_HistoryOnlyAfterSubmit ==
    /\ \A p \in Invocations :
          /\ pc[p] = "SaveHistory" =>
                 (FirstAttestation(p) \in proposed /\ SecondAttestation(p) \in proposed)
          /\ (pc[p] = "Failed" /\ failedAt[p] \in EarlyFailures /\ Latest(p))
                 => db = dbAtStart[p]
    /\ \A k \in 0 .. WeakSubjectivityPeriod - 1 :
          db.TargetToSource[k] # FarFutureEpoch =>
              \E v \in Votes : /\ v.Target % WeakSubjectivityPeriod = k
                               /\ v.Source = db.TargetToSource[k]
    /\ db.LatestEpochWritten # 0 =>
          \E v \in Votes : v.Target = db.LatestEpochWritten

\* The second invocation fails at its second submission, its first vote
\* submitted, and leaves the history the first invocation saved.
C3_Witness ==
    /\ pc[1] = "Done"
    /\ pc[2] = "Failed"
    /\ failedAt[2] = "propose2"
    /\ VotesOf(2) # {}
    /\ db # EmptyHistory(WeakSubjectivityPeriod)
    /\ db = dbAtStart[2]

\* The steps between the history load of the check and the history save.
BetweenLoadAndSave(p) ==
    pc[p] \in {"Sign1", "Sign2", "Propose1", "Propose2", "LoadHistory", "SaveHistory"}

\* C4, under Spec: with slashing protection on, two invocations for the
\* key are never both between the history load of the protection check
\* and the history save of the commit.
C4_MutualExclusion ==
    ProtectAttester =>
        \A p \in Invocations, q \in Invocations :
            (p # q) => ~(BetweenLoadAndSave(p) /\ BetweenLoadAndSave(q))

\* C5, under SeqSpec: with slashing protection on, the history saved by an
\* invocation is the loaded history with both submitted candidates marked.
C5_BothCandidatesCommitted ==
    ProtectAttester =>
        \A p \in Invocations :
            pc[p] = "SaveIndex" =>
                LET one == frame[p].data1
                    two == frame[p].data2
                    w   == WeakSubjectivityPeriod
                    m(h, d) == markAttestationForTargetEpoch(w, h, d.Source, d.Target)
                IN  \/ db = m(m(dbAtStart[p], one), two)
                    \/ db = m(m(dbAtStart[p], two), one)

\* C6, under SeqSpec: with slashing protection on, a later invocation
\* submits no vote that is slashable against a vote submitted by an
\* earlier invocation that failed.
C6_RetrySafe ==
    ProtectAttester =>
        \A p \in Invocations, q \in Invocations :
            (p < q /\ pc[p] = "Failed") =>
                \A v \in VotesOf(p), w \in VotesOf(q) : ~SlashablePair(v, w)

\* The invocations that returned with an error, and those that succeeded.
FailedInvocations == {q \in Invocations : pc[q] = "Failed"}
DoneInvocations == {q \in Invocations : pc[q] = "Done"}

\* The invocation failed at the load or the save of lines 182-199.
PersistFailed(p) == pc[p] = "Failed" /\ failedAt[p] \in {"reload", "save"}

\* C15, as the spec states it, under SeqSpec: when the history load or
\* save after the submissions fails, both votes of the invocation stay
\* submitted, the persisted history is the one the invocation started
\* with, and the invocation is counted by the failure counter and not by
\* the success counter.
C15_PersistFailureCounted ==
    \A p \in Invocations :
        PersistFailed(p) =>
            /\ Cardinality(VotesOf(p)) = 2
            /\ Latest(p) => db = dbAtStart[p]
            /\ failCount = Cardinality(FailedInvocations)
            /\ successCount = Cardinality(DoneInvocations)

\* C15, amended: when the history load or save after the submissions
\* fails, both votes of the invocation stay submitted, the persisted
\* history is the one the invocation started with, the success counter
\* does not count the invocation, and the failure counter counts it when
\* account metrics are enabled (no counter moves when they are not).
C15_PersistFailure ==
    \A p \in Invocations :
        PersistFailed(p) =>
            /\ Cardinality(VotesOf(p)) = 2
            /\ Latest(p) => db = dbAtStart[p]
            /\ failCount =
                   IF emitAccountMetrics THEN Cardinality(FailedInvocations) ELSE 0
            /\ successCount =
                   IF emitAccountMetrics THEN Cardinality(DoneInvocations) ELSE 0

\* The first invocation succeeds; the second submits two votes and fails
\* at the save.
C15_Witness ==
    /\ emitAccountMetrics
    /\ pc[1] = "Done"
    /\ PersistFailed(2)
    /\ failedAt[2] = "save"
    /\ Cardinality(VotesOf(2)) = 2
    /\ db = dbAtStart[2]
    /\ db # EmptyHistory(WeakSubjectivityPeriod)
    /\ failCount = 1
    /\ successCount = 1

(***************************************************************************)
(* Properties of the checked marks, under GuardedSpec.                     *)
(***************************************************************************)
\* The i-th marked vote, and LatestEpochWritten when the j-th was checked:
\* the largest target marked before it.
VoteAt(i) == [Source |-> trace[i][1], Target |-> trace[i][2]]
LatestBefore(j) ==
    LET targets == {0} \cup {trace[i][2] : i \in 1 .. j - 1}
    IN  CHOOSE m \in targets : \A n \in targets : n <= m

\* C17, under GuardedSpec: of the votes marked from the empty history,
\* each only after isNewAttSlashable returned false for it, no two whose
\* targets are both inside the retained window when the later one was
\* checked are a double vote or a surround pair.
C17_SequenceSafe ==
    \A j \in 1 .. Len(trace) : \A i \in 1 .. j - 1 :
        (/\ trace[i][2] > LatestBefore(j) - WeakSubjectivityPeriod
         /\ trace[j][2] > LatestBefore(j) - WeakSubjectivityPeriod)
            => ~SlashablePair(VoteAt(i), VoteAt(j))

(***************************************************************************)
(* Termination and accounting of SubmitAttestation.                        *)
(***************************************************************************)
\* C19, under FairSeqSpec: every invocation that started eventually returns,
\* Done or Failed, whatever the beacon node answers, data with the source
\* epoch of the first fetch again and again included.
C19_Terminates ==
    \A p \in Invocations : (pc[p] # "Start") ~> Terminated(p)

\* The steps at which an invocation can fail.
FailureSteps ==
    {"duty", "data1", "data2", "load", "slashable", "sign1", "sign2",
     "committee", "propose1", "propose2", "reload", "save", "index"}

\* C20, under SeqSpec: with account metrics on, every invocation that
\* returned is counted once by exactly one counter: the success counter
\* counts the invocations in which no step failed (both votes submitted,
\* the history marked when protection is on, the index logged), the
\* failure counter those that failed at one of the steps.
C20_Accounting ==
    emitAccountMetrics =>
        /\ successCount = Cardinality(DoneInvocations)
        /\ failCount = Cardinality(FailedInvocations)
        /\ \A p \in Invocations :
              /\ pc[p] = "Failed" <=> failedAt[p] \in FailureSteps
              /\ pc[p] = "Done" =>
                    /\ failedAt[p] = "none"
                    /\ Cardinality(VotesOf(p)) = 2
                    /\ \E v \in VotesOf(p) : attLogs[v] # <<>>
                    /\ (ProtectAttester /\ Latest(p)) =>
                           \E v \in VotesOf(p) :
                               db.TargetToSource[v.Target % WeakSubjectivityPeriod]
                                   = v.Source

\* One invocation succeeded and the next was refused as slashable.
C20_Witness ==
    /\ emitAccountMetrics
    /\ pc[1] = "Done"
    /\ pc[2] = "Failed"
    /\ failedAt[2] = "slashable"
    /\ successCount = 1
    /\ failCount = 1

=============================================================================
